---- MODULE Spec2Model ----
(***************************************************************************)
(* Model of auto_software_installer.py: the selection resolvers, the       *)
(* payload / argv validation, the command synthesizer, one invocation of   *)
(* install_from_payload (through install_software_http) or of main against *)
(* a remote host, and two invocations of install_from_payload side by side.*)
(*                                                                         *)
(* A Python str is a sequence of one-character strings, so that split,     *)
(* strip, isdigit, int and join are computed and not assumed.  Any other   *)
(* Python value is a record tagged with its type.                          *)
(***************************************************************************)
EXTENDS Integers, Sequences, FiniteSets, TLC

VARIABLES
    entry,          \* "http" (install_software_http) or "cli" (main) or "none"
    request,        \* the JSON body (http) or the parsed-to-be argv (cli)
    pc,             \* position of the invocation in its handler
    config,         \* the SSHConfig, once built
    software_names, \* the validated software list, once built
    manager,        \* what detect_package_manager returned
    exc,            \* the exception in flight, or NoExc
    log,            \* the calls made on the RemoteInstaller / its client, in order
    response,       \* what the entry point gave back to its caller
    selKind,        \* which resolver the selection check exercises
    selEntries,     \* the entries given to the name resolvers
    selRaw,         \* the raw text given to parse_selection
    selN,           \* total_options given to parse_selection
    strOut,         \* outcome of resolve_software_list
    listOut,        \* outcome of _ensure_software_list
    idxOut,         \* outcome of parse_selection
    synth,          \* the arguments and the outcome of build_install_command
    par,            \* the invocations of install_from_payload that run side by side
    installers,     \* the RemoteInstaller objects these invocations have made
    catalog         \* the module-level SOFTWARE_CATALOG they share

invVars == <<entry, request, pc, config, software_names, manager, exc, log, response>>
selVars == <<selKind, selEntries, selRaw, selN, strOut, listOut, idxOut>>
cmdVars == <<synth>>
parVars == <<par, installers, catalog>>
vars == <<entry, request, pc, config, software_names, manager, exc, log, response,
          selKind, selEntries, selRaw, selN, strOut, listOut, idxOut,
          synth, par, installers, catalog>>

----------------------------------------------------------------------------
(* Bounds *)

MaxEntries == 3     \* entries in a selection given to the name resolvers
MaxTokens == 3      \* tokens in a selection given to parse_selection
MaxOptions == 4     \* largest total_options tried with parse_selection
MaxSoftware == 2    \* entries of the software field of an invocation

----------------------------------------------------------------------------
(* Python values *)

PyNone == [t |-> "None"]
PyStr(s) == [t |-> "str", s |-> s]
PyInt(n) == [t |-> "int", n |-> n]
PyList(l) == [t |-> "list", l |-> l]

\* bool(v)
Truthy(v) ==
    CASE v.t = "None" -> FALSE
      [] v.t = "str" -> v.s # <<>>
      [] v.t = "int" -> v.n # 0
      [] v.t = "list" -> v.l # <<>>

\* a call either returns a value or raises
Ok(v) == [ok |-> TRUE, val |-> v]
Raise(cls, kind, detail) == [ok |-> FALSE, cls |-> cls, kind |-> kind, detail |-> detail]

----------------------------------------------------------------------------
(* str methods *)

IsSpace(c) == c \in {" ", "\n", "\t"}

RECURSIVE LStrip(_)
LStrip(s) == IF s # <<>> /\ IsSpace(Head(s)) THEN LStrip(Tail(s)) ELSE s

RECURSIVE RStrip(_)
RStrip(s) ==
    IF s # <<>> /\ IsSpace(s[Len(s)]) THEN RStrip(SubSeq(s, 1, Len(s) - 1)) ELSE s

\* str.strip()
Strip(s) == RStrip(LStrip(s))

\* str.split(sep) for a one-character sep: always at least one piece
RECURSIVE Split(_, _)
Split(s, sep) ==
    IF \A i \in 1..Len(s) : s[i] # sep THEN <<s>>
    ELSE LET k == CHOOSE i \in 1..Len(s) :
                      s[i] = sep /\ \A j \in 1..(i - 1) : s[j] # sep
         IN <<SubSeq(s, 1, k - 1)>> \o Split(SubSeq(s, k + 1, Len(s)), sep)

\* sep.join(parts)
RECURSIVE Join(_, _)
Join(parts, sep) ==
    IF parts = <<>> THEN <<>>
    ELSE IF Len(parts) = 1 THEN parts[1]
    ELSE parts[1] \o sep \o Join(Tail(parts), sep)

Digits == <<"0", "1", "2", "3", "4", "5", "6", "7", "8", "9">>

\* str.isdigit()
isdigit(s) == s # <<>> /\ \A i \in 1..Len(s) : \E d \in 1..10 : Digits[d] = s[i]

DigitVal(c) == (CHOOSE d \in 1..10 : Digits[d] = c) - 1

\* int(s) of a digit string
RECURSIVE int(_)
int(s) == IF s = <<>> THEN 0 ELSE 10 * int(SubSeq(s, 1, Len(s) - 1)) + DigitVal(s[Len(s)])

\* x in list
InSeq(x, s) == \E i \in 1..Len(s) : s[i] = x

----------------------------------------------------------------------------
(* SOFTWARE_CATALOG *)

git == <<"g", "i", "t">>
curl == <<"c", "u", "r", "l">>
wget == <<"w", "g", "e", "t">>
vim == <<"v", "i", "m">>
htop == <<"h", "t", "o", "p">>
docker == <<"d", "o", "c", "k", "e", "r">>
docker_io == <<"d", "o", "c", "k", "e", "r", ".", "i", "o">>
nginx == <<"n", "g", "i", "n", "x">>
nodejs == <<"n", "o", "d", "e", "j", "s">>
python3_pip == <<"p", "y", "t", "h", "o", "n", "3", "-", "p", "i", "p">>

\* SOFTWARE_CATALOG.keys(), in insertion order
CatalogKeys == <<git, curl, wget, vim, htop, docker, nginx, nodejs, python3_pip>>

SOFTWARE_CATALOG ==
    [name \in {CatalogKeys[i] : i \in 1..Len(CatalogKeys)} |->
        IF name = docker THEN docker_io ELSE name]

----------------------------------------------------------------------------
(* Selection resolvers *)

ValueError == "ValueError"
RequestValidationError == "RequestValidationError"
RemoteInstallerError == "RemoteInstallerError"

\* parse_tokens without the "idx not in picked" test
RECURSIVE parse_tokens_KeepAll(_, _, _)
parse_tokens_KeepAll(tokens, total_options, picked) ==
    IF tokens = <<>> THEN Ok(picked)
    ELSE LET token == Strip(Head(tokens)) IN
         IF token = <<>> THEN parse_tokens_KeepAll(Tail(tokens), total_options, picked)
         ELSE IF ~isdigit(token) THEN Raise(ValueError, "InvalidToken", token)
         ELSE LET idx == int(token) IN
              IF idx < 1 \/ idx > total_options
              THEN Raise(ValueError, "OutOfRange", idx)
              ELSE parse_tokens_KeepAll(Tail(tokens), total_options, Append(picked, idx))

\* the for loop of parse_selection over the remaining tokens; picked is
\* the list built so far.  The first offending token raises.
RECURSIVE parse_tokens(_, _, _)
parse_tokens(tokens, total_options, picked) ==
    IF tokens = <<>> THEN Ok(picked)
    ELSE LET token == Strip(Head(tokens)) IN
         IF token = <<>> THEN parse_tokens(Tail(tokens), total_options, picked)
         ELSE IF ~isdigit(token) THEN Raise(ValueError, "InvalidToken", token)
         ELSE LET idx == int(token) IN
              IF idx < 1 \/ idx > total_options
              THEN Raise(ValueError, "OutOfRange", idx)
              ELSE parse_tokens(Tail(tokens), total_options,
                                IF InSeq(idx, picked) THEN picked ELSE Append(picked, idx))

parse_selection(raw_selection, total_options) ==
    parse_tokens(Split(raw_selection, ","), total_options, <<>>)

\* input() gives a line, or raises EOFError when stdin is closed (PyNone)
interactive_software_choice(stdin) ==
    IF stdin = PyNone THEN Raise("EOFError", "EOF", <<>>)
    ELSE LET options == CatalogKeys
             indices == parse_selection(Strip(stdin.s), Len(options))
         IN IF ~indices.ok THEN indices
            ELSE IF indices.val = <<>> THEN Raise(ValueError, "EmptySelection", <<>>)
            ELSE Ok([i \in 1..Len(indices.val) |-> options[indices.val[i]]])

\* Unique that compares an item with the last kept one only
RECURSIVE Unique_AdjacentOnly(_, _)
Unique_AdjacentOnly(requested, unique) ==
    IF requested = <<>> THEN unique
    ELSE Unique_AdjacentOnly(Tail(requested),
                IF unique # <<>> /\ unique[Len(unique)] = Head(requested) THEN unique
                ELSE Append(unique, Head(requested)))

\* the loop "if item not in unique: unique.append(item)"
RECURSIVE Unique(_, _)
Unique(requested, unique) ==
    IF requested = <<>> THEN unique
    ELSE Unique(Tail(requested),
                IF InSeq(Head(requested), unique) THEN unique
                ELSE Append(unique, Head(requested)))

\* [item.strip() for item in software_arg.split(",") if item.strip()]
Requested(software_arg) ==
    LET items == Split(software_arg, ",")
        stripped == [i \in 1..Len(items) |-> Strip(items[i])]
    IN SelectSeq(stripped, LAMBDA item : item # <<>>)

\* software_arg is args.software: None or a str; stdin is what input()
\* would give if the interactive menu is shown
resolve_software_list(software_arg, stdin) ==
    IF ~Truthy(software_arg) THEN interactive_software_choice(stdin)
    ELSE LET requested == Requested(software_arg.s)
             invalid == SelectSeq(requested, LAMBDA name : name \notin DOMAIN SOFTWARE_CATALOG)
         IN IF requested = <<>> THEN Raise(ValueError, "EmptySelection", <<>>)
            ELSE IF invalid # <<>> THEN Raise(ValueError, "UnknownSoftware", invalid)
            ELSE Ok(Unique(requested, <<>>))

\* ensure_items without the "not in software_names" test
RECURSIVE ensure_items_KeepAll(_, _)
ensure_items_KeepAll(value, names) ==
    IF value = <<>> THEN Ok(names)
    ELSE LET name == Head(value) IN
         IF name.t # "str" \/ Strip(name.s) = <<>>
         THEN Raise(RequestValidationError, "InvalidItem", <<>>)
         ELSE LET normalized == Strip(name.s) IN
              IF normalized \notin DOMAIN SOFTWARE_CATALOG
              THEN Raise(RequestValidationError, "UnknownSoftware", <<normalized>>)
              ELSE ensure_items_KeepAll(Tail(value), Append(names, normalized))

\* the for loop of _ensure_software_list over the remaining items
RECURSIVE ensure_items(_, _)
ensure_items(value, names) ==
    IF value = <<>> THEN Ok(names)
    ELSE LET name == Head(value) IN
         IF name.t # "str" \/ Strip(name.s) = <<>>
         THEN Raise(RequestValidationError, "InvalidItem", <<>>)
         ELSE LET normalized == Strip(name.s) IN
              IF normalized \notin DOMAIN SOFTWARE_CATALOG
              THEN Raise(RequestValidationError, "UnknownSoftware", <<normalized>>)
              ELSE ensure_items(Tail(value),
                                IF InSeq(normalized, names) THEN names
                                ELSE Append(names, normalized))

_ensure_software_list(value) ==
    IF value.t # "list" \/ value.l = <<>>
    THEN Raise(RequestValidationError, "EmptySelection", <<>>)
    ELSE ensure_items(value.l, <<>>)

----------------------------------------------------------------------------
(* shlex.quote and the command synthesizer *)

\* the characters shlex.quote leaves alone: [A-Za-z0-9_@%+=:,./-]
SafeChars ==
    {"a", "b", "c", "d", "e", "f", "g", "h", "i", "j", "k", "l", "m", "n", "o", "p", "q",
    "r", "s", "t", "u", "v", "w", "x", "y", "z", "A", "B", "C", "D", "E", "F", "G", "H",
    "I", "J", "K", "L", "M", "N", "O", "P", "Q", "R", "S", "T", "U", "V", "W", "X", "Y",
    "Z", "0", "1", "2", "3", "4", "5", "6", "7", "8", "9", "_", "@", "%", "+", "=", ":",
    ",", ".", "/", "-"}

\* s.replace("'", "'\"'\"'"), by halves to keep the evaluation shallow
RECURSIVE EscapeQuotes(_)
EscapeQuotes(s) ==
    IF s = <<>> THEN <<>>
    ELSE IF Len(s) = 1
    THEN (IF s[1] = "'" THEN <<"'", "\"", "'", "\"", "'">> ELSE s)
    ELSE LET half == Len(s) \div 2 IN
         EscapeQuotes(SubSeq(s, 1, half)) \o EscapeQuotes(SubSeq(s, half + 1, Len(s)))

\* shlex.quote(s)
shlex_quote(s) ==
    IF s = <<>> THEN <<"'", "'">>
    ELSE IF \A i \in 1..Len(s) : s[i] \in SafeChars THEN s
    ELSE <<"'">> \o EscapeQuotes(s) \o <<"'">>

apt == <<"a", "p", "t">>
dnf == <<"d", "n", "f">>
yum == <<"y", "u", "m">>
zypper == <<"z", "y", "p", "p", "e", "r">>
unknown == <<"u", "n", "k", "n", "o", "w", "n">>

AptUpdate ==
    <<"D", "E", "B", "I", "A", "N", "_", "F", "R", "O", "N", "T", "E", "N", "D", "=", "n",
    "o", "n", "i", "n", "t", "e", "r", "a", "c", "t", "i", "v", "e", " ", "a", "p", "t",
    "-", "g", "e", "t", " ", "u", "p", "d", "a", "t", "e", " ", "&", "&", " ">>
AptInstall ==
    <<"D", "E", "B", "I", "A", "N", "_", "F", "R", "O", "N", "T", "E", "N", "D", "=", "n",
    "o", "n", "i", "n", "t", "e", "r", "a", "c", "t", "i", "v", "e", " ", "a", "p", "t",
    "-", "g", "e", "t", " ", "i", "n", "s", "t", "a", "l", "l", " ", "-", "y", " ">>
InstallY == <<" ", "i", "n", "s", "t", "a", "l", "l", " ", "-", "y", " ">>
ZypperInstall ==
    <<"z", "y", "p", "p", "e", "r", " ", "-", "-", "n", "o", "n", "-", "i", "n", "t", "e",
    "r", "a", "c", "t", "i", "v", "e", " ", "i", "n", "s", "t", "a", "l", "l", " ">>
EchoPrefix == <<"b", "a", "s", "h", " ", "-", "l", "c", " ", "\"", "e", "c", "h", "o", " ">>
SudoS == <<" ", "|", " ", "s", "u", "d", "o", " ", "-", "S", " ", "b", "a", "s", "h", " ", "-", "l", "c", " ">>
SudoN == <<"s", "u", "d", "o", " ", "-", "n", " ", "b", "a", "s", "h", " ", "-", "l", "c", " ">>

\* " ".join(shlex.quote(pkg) for pkg in packages)
quoted_packages(packages) ==
    Join([i \in 1..Len(packages) |-> shlex_quote(packages[i])], <<" ">>)

\* templates that leave the update out for apt and fall back to the yum
\* form for a manager they do not know
install_cmd_NoUpdateNoError(package_manager, packages) ==
    IF package_manager = apt
    THEN Ok(AptInstall \o quoted_packages(packages))
    ELSE IF package_manager = zypper
    THEN Ok(ZypperInstall \o quoted_packages(packages))
    ELSE Ok(package_manager \o InstallY \o quoted_packages(packages))

\* the install_cmd of build_install_command: the template of the manager
\* around the quoted packages
install_cmd(package_manager, packages) ==
    IF package_manager = apt
    THEN Ok(AptUpdate \o AptInstall \o quoted_packages(packages))
    ELSE IF package_manager \in {dnf, yum}
    THEN Ok(package_manager \o InstallY \o quoted_packages(packages))
    ELSE IF package_manager = zypper
    THEN Ok(ZypperInstall \o quoted_packages(packages))
    ELSE Raise(RemoteInstallerError, "UnsupportedPackageManager", package_manager)

\* password is self.ssh_config.password
build_install_command(package_manager, packages, password) ==
    LET cmd == install_cmd(package_manager, packages)
    IN IF ~cmd.ok THEN cmd
       ELSE IF Truthy(password)
       THEN Ok(EchoPrefix \o shlex_quote(password.s) \o SudoS
               \o shlex_quote(cmd.val) \o <<"\"">>)
       ELSE Ok(SudoN \o shlex_quote(cmd.val))

----------------------------------------------------------------------------
(* The remote host, as seen through the paramiko client *)

\* the command of detect_package_manager
ProbeCommand ==
    <<"b", "a", "s", "h", " ", "-", "l", "c", " ", "'", "i", "f", " ", "c", "o", "m", "m",
    "a", "n", "d", " ", "-", "v", " ", "a", "p", "t", "-", "g", "e", "t", " ", ">", "/",
    "d", "e", "v", "/", "n", "u", "l", "l", " ", "2", ">", "&", "1", ";", " ", "t", "h",
    "e", "n", " ", "e", "c", "h", "o", " ", "a", "p", "t", ";", " ", "e", "l", "i", "f",
    " ", "c", "o", "m", "m", "a", "n", "d", " ", "-", "v", " ", "d", "n", "f", " ", ">",
    "/", "d", "e", "v", "/", "n", "u", "l", "l", " ", "2", ">", "&", "1", ";", " ", "t",
    "h", "e", "n", " ", "e", "c", "h", "o", " ", "d", "n", "f", ";", " ", "e", "l", "i",
    "f", " ", "c", "o", "m", "m", "a", "n", "d", " ", "-", "v", " ", "y", "u", "m", " ",
    ">", "/", "d", "e", "v", "/", "n", "u", "l", "l", " ", "2", ">", "&", "1", ";", " ",
    "t", "h", "e", "n", " ", "e", "c", "h", "o", " ", "y", "u", "m", ";", " ", "e", "l",
    "i", "f", " ", "c", "o", "m", "m", "a", "n", "d", " ", "-", "v", " ", "z", "y", "p",
    "p", "e", "r", " ", ">", "/", "d", "e", "v", "/", "n", "u", "l", "l", " ", "2", ">",
    "&", "1", ";", " ", "t", "h", "e", "n", " ", "e", "c", "h", "o", " ", "z", "y", "p",
    "p", "e", "r", ";", " ", "e", "l", "s", "e", " ", "e", "c", "h", "o", " ", "u", "n",
    "k", "n", "o", "w", "n", ";", " ", "f", "i", "'">>

PackageManagerBinaries == {"apt-get", "dnf", "yum", "zypper"}

\* a chain that tests for yum before dnf
ProbeEcho_YumBeforeDnf(binaries) ==
    IF "apt-get" \in binaries THEN apt
    ELSE IF "yum" \in binaries THEN yum
    ELSE IF "dnf" \in binaries THEN dnf
    ELSE IF "zypper" \in binaries THEN zypper
    ELSE unknown

\* what the if / elif chain of the probe command echoes on a host that has
\* the given binaries on its PATH
ProbeEcho(binaries) ==
    IF "apt-get" \in binaries THEN apt
    ELSE IF "dnf" \in binaries THEN dnf
    ELSE IF "yum" \in binaries THEN yum
    ELSE IF "zypper" \in binaries THEN zypper
    ELSE unknown

\* what a login shell (bash -l) may write to stdout before it runs the command
Banners == {<<>>, <<"W", "e", "l", "c", "o", "m", "e", "\n">>}

\* outcome of client.exec_command + recv_exit_status + read
Completed(exit_code, out, err) ==
    [t |-> "completed", exit_code |-> exit_code, stdout |-> out, stderr |-> err]
ChannelError == [t |-> "channel_error"]

\* a remote host: the package-manager binaries on its PATH and what its
\* login shell writes first
Hosts == [binaries : SUBSET PackageManagerBinaries, banner : Banners]

\* what the probe command can do on the host: the chain runs and echoes, or
\* bash is not there (exit 127), or the channel breaks
ProbeOutcomes(host) ==
    {Completed(0, host.banner \o ProbeEcho(host.binaries) \o <<"\n">>, <<>>),
     Completed(127, <<>>, <<"e", "\n">>), ChannelError}

InstallOutcomes ==
    {Completed(c, o, e) : c \in {0, 1, 100}, o \in {<<>>, <<"o", "\n">>},
                          e \in {<<>>, <<"E", "\n">>}}
    \cup {ChannelError}

\* run that does not look at the exit code
run_IgnoreExit(command, outcome) ==
    IF outcome = ChannelError THEN Raise("SSHException", "ChannelError", <<>>)
    ELSE Ok(Strip(outcome.stdout))

\* RemoteInstaller.run(command), given what the host does with the command
run(command, outcome) ==
    IF outcome = ChannelError THEN Raise("SSHException", "ChannelError", <<>>)
    ELSE LET exit_code == outcome.exit_code
             out == Strip(outcome.stdout)
             err == Strip(outcome.stderr)
         IN IF exit_code # 0
            THEN Raise(RemoteInstallerError, "CommandFailed",
                       [exit_code |-> exit_code, command |-> command,
                        stderr |-> err, stdout |-> out])
            ELSE Ok(out)

\* RemoteInstaller.detect_package_manager(), given the probe's outcome
detect_package_manager(outcome) ==
    LET manager_ == run(ProbeCommand, outcome) IN
    IF ~manager_.ok THEN manager_
    ELSE IF manager_.val = unknown
    THEN Raise(RemoteInstallerError, "UnsupportedDistribution", <<>>)
    ELSE manager_

----------------------------------------------------------------------------
(* Requests and their validation *)

\* a key that the JSON object does not have
Absent == [t |-> "absent"]

\* payload.get(key): None when the key is absent
Get(v) == IF v = Absent THEN PyNone ELSE v

SSHConfig(host, username, password, key_file, port) ==
    [host |-> host, username |-> username, password |-> password,
     key_file |-> key_file, port |-> port]

InvalidRequest(what) == Raise(RequestValidationError, "InvalidCredentials", what)

\* payload is a JSON object
_config_from_payload(payload) ==
    LET host == Get(payload.host)
        username == Get(payload.username)
        port == IF payload.port = Absent THEN PyInt(22) ELSE payload.port
        password == Get(payload.password)
        key_file == Get(payload.key_file)
    IN IF host.t # "str" \/ Strip(host.s) = <<>> THEN InvalidRequest("host")
       ELSE IF username.t # "str" \/ Strip(username.s) = <<>> THEN InvalidRequest("username")
       ELSE IF port.t # "int" \/ port.n <= 0 THEN InvalidRequest("port")
       ELSE IF Truthy(password) = Truthy(key_file) THEN InvalidRequest("exactly one")
       ELSE IF password # PyNone /\ (password.t # "str" \/ ~Truthy(password))
       THEN InvalidRequest("password")
       ELSE IF key_file # PyNone /\ (key_file.t # "str" \/ ~Truthy(key_file))
       THEN InvalidRequest("key_file")
       ELSE LET names == _ensure_software_list(Get(payload.software)) IN
            IF ~names.ok THEN names
            ELSE Ok([config |-> SSHConfig(PyStr(Strip(host.s)), PyStr(Strip(username.s)),
                                          password, key_file, port),
                     software_names |-> names.val])

\* the mutually exclusive, required group of parse_args: argparse exits
\* with status 2 unless exactly one of --password / --key-file is given
parse_args(argv) ==
    IF (argv.password # Absent) = (argv.key_file # Absent)
    THEN Raise("SystemExit", "ArgparseError", 2)
    ELSE Ok([host |-> argv.host, port |-> argv.port, username |-> argv.username,
             password |-> Get(argv.password), key_file |-> Get(argv.key_file),
             software |-> Get(argv.software), ask_password |-> argv.ask_password])

bogus == <<"b", "o", "g", "u", "s">>
hostH == <<"h">>
userU == <<"u">>

BoundedSeqs(S, n) == UNION {[1..k -> S] : k \in 0..n}

JsonStrings == {PyNone, PyStr(<<>>), PyStr(<<"p">>), PyInt(1)}

SoftwareItems == {PyStr(git), PyStr(curl), PyStr(bogus), PyStr(<<" ">>), PyInt(1)}

\* what request.get_json(silent=True) can give
HttpPayloads ==
    {PyNone, PyList(<<>>)}
    \cup [t : {"dict"},
          host : {Absent, PyStr(<<" ">>), PyStr(hostH)},
          username : {Absent, PyStr(userU)},
          port : {Absent, PyInt(0), PyInt(22), PyInt(65536), PyStr(<<"2", "2">>)},
          password : JsonStrings,
          key_file : JsonStrings,
          software : {Absent} \cup {PyList(l) : l \in BoundedSeqs(SoftwareItems, MaxSoftware)}]

CliSoftwareEntries == {git, curl, bogus, <<" ">>}

\* the command lines given to main
CliArgvs ==
    [t : {"argv"},
     host : {PyStr(hostH)},
     username : {PyStr(userU)},
     port : {PyInt(22)},
     password : {Absent, PyStr(<<>>), PyStr(<<"p">>)},
     key_file : {Absent, PyStr(<<>>), PyStr(<<"k">>)},
     ask_password : BOOLEAN,
     software : {Absent} \cup
                {PyStr(Join(l, <<",">>)) : l \in BoundedSeqs(CliSoftwareEntries, MaxSoftware)}]

\* what getpass.getpass() can give
PromptedPasswords == {<<>>, <<"q">>}

\* what input() can give in interactive_software_choice (PyNone: end of file)
StdinLines ==
    {PyNone, PyStr(<<>>), PyStr(<<"1">>), PyStr(<<"2", ",", "1", ",", "2">>),
     PyStr(<<"0">>), PyStr(<<"x">>), PyStr(<<"1", "0">>), PyStr(<<" ", "9", " ">>)}

----------------------------------------------------------------------------
(* One invocation of install_software_http or of main *)

NoExc == PyNone
NoResponse == [t |-> "none"]
Returned(v) == [t |-> "returned", value |-> v]
Escaped(e) == [t |-> "raised", exc |-> e]

Idle ==
    /\ selKind = "none"
    /\ selEntries = <<>>
    /\ selRaw = <<>>
    /\ selN = 0
    /\ strOut = PyNone
    /\ listOut = PyNone
    /\ idxOut = PyNone

\* no command is being synthesized on its own
NoSynthesis == synth = PyNone

\* no invocations run side by side
NoParallel ==
    /\ par = <<>>
    /\ installers = <<>>
    /\ catalog = SOFTWARE_CATALOG

Init ==
    /\ \/ entry = "http" /\ request \in HttpPayloads
       \/ entry = "cli" /\ request \in CliArgvs
    /\ pc = "start"
    /\ config = PyNone
    /\ software_names = <<>>
    /\ manager = PyNone
    /\ exc = NoExc
    /\ log = <<>>
    /\ response = NoResponse
    /\ Idle
    /\ NoSynthesis
    /\ NoParallel

\* install_software_http up to the return of _config_from_payload
HttpReceive ==
    /\ pc = "start"
    /\ entry = "http"
    /\ IF request = PyNone
       THEN /\ response' = Returned([body |-> [status |-> "error",
                                               message |-> "invalid or missing JSON body"],
                                     status |-> 400])
            /\ pc' = "done"
            /\ UNCHANGED <<config, software_names, exc>>
       ELSE IF request.t # "dict"
       THEN /\ exc' = Raise("AttributeError", "NotAnObject", <<>>)
            /\ pc' = "exit"
            /\ UNCHANGED <<config, software_names, response>>
       ELSE LET r == _config_from_payload(request) IN
            IF r.ok
            THEN /\ config' = r.val.config
                 /\ software_names' = r.val.software_names
                 /\ pc' = "construct"
                 /\ UNCHANGED <<exc, response>>
            ELSE /\ exc' = r
                 /\ pc' = "exit"
                 /\ UNCHANGED <<config, software_names, response>>
    /\ UNCHANGED <<entry, request, manager, log>>
    /\ UNCHANGED <<selVars, cmdVars, parVars>>

\* main up to the construction of the SSHConfig
CliReceive ==
    /\ pc = "start"
    /\ entry = "cli"
    /\ \E prompted \in PromptedPasswords, stdin \in StdinLines :
        LET args == parse_args(request) IN
        IF ~args.ok
        THEN /\ exc' = args
             /\ pc' = "exit"
             /\ UNCHANGED <<config, software_names>>
        ELSE LET password == IF args.val.ask_password THEN PyStr(prompted)
                             ELSE args.val.password
                 names == resolve_software_list(args.val.software, stdin)
             IN IF ~names.ok
                THEN /\ exc' = names
                     /\ pc' = "exit"
                     /\ UNCHANGED <<config, software_names>>
                ELSE /\ software_names' = names.val
                     /\ config' = SSHConfig(args.val.host, args.val.username, password,
                                            args.val.key_file, args.val.port)
                     /\ pc' = "construct"
                     /\ UNCHANGED exc
    /\ UNCHANGED <<entry, request, manager, log, response>>
    /\ UNCHANGED <<selVars, cmdVars, parVars>>

\* RemoteInstaller(config): _load_paramiko fails when paramiko is not installed
Construct ==
    /\ pc = "construct"
    /\ \E paramiko_installed \in BOOLEAN :
        IF paramiko_installed
        THEN pc' = "connect" /\ UNCHANGED exc
        ELSE /\ exc' = Raise(RemoteInstallerError, "ParamikoRequired", <<>>)
             /\ pc' = "exit"
    /\ UNCHANGED <<entry, request, config, software_names, manager, log, response>>
    /\ UNCHANGED <<selVars, cmdVars, parVars>>

\* the keyword arguments connect() gives to client.connect
ConnectKwargs(ssh_config) ==
    IF Truthy(ssh_config.key_file)
    THEN [port |-> ssh_config.port, key_filename |-> ssh_config.key_file]
    ELSE [port |-> ssh_config.port, password |-> ssh_config.password]

\* a connect() that swallows the exception of client.connect
Connect_FailureSwallowed ==
    /\ pc = "connect"
    /\ \E ok \in BOOLEAN :
        /\ log' = Append(log, [op |-> "connect", kwargs |-> ConnectKwargs(config), ok |-> ok])
        /\ pc' = "install"
        /\ UNCHANGED exc
    /\ UNCHANGED <<entry, request, config, software_names, manager, response>>
    /\ UNCHANGED <<selVars, cmdVars, parVars>>

\* installer.connect(): client.connect returns, or raises one of paramiko's
\* or the socket's exceptions
Connect ==
    /\ pc = "connect"
    /\ \E ok \in BOOLEAN :
        /\ log' = Append(log, [op |-> "connect", kwargs |-> ConnectKwargs(config), ok |-> ok])
        /\ IF ok
           THEN pc' = "install" /\ UNCHANGED exc
           ELSE /\ exc' = Raise("SSHException", "ConnectFailed", <<>>)
                /\ pc' = "exit"
    /\ UNCHANGED <<entry, request, config, software_names, manager, response>>
    /\ UNCHANGED <<selVars, cmdVars, parVars>>

\* installer.install(software_names) up to the return of detect_package_manager
InstallDetect ==
    /\ pc = "install"
    /\ IF software_names = <<>>
       THEN /\ exc' = Raise(RemoteInstallerError, "NoSoftwareSelected", <<>>)
            /\ log' = log \o <<[op |-> "install"], [op |-> "install raised"]>>
            /\ pc' = "finally"
            /\ UNCHANGED manager
       ELSE \E host \in Hosts : \E outcome \in ProbeOutcomes(host) :
            LET m == detect_package_manager(outcome)
                called == <<[op |-> "install"],
                            [op |-> "exec_command", command |-> ProbeCommand,
                             outcome |-> outcome, host |-> host]>>
            IN IF m.ok
               THEN /\ manager' = PyStr(m.val)
                    /\ log' = log \o called
                    /\ pc' = "run"
                    /\ UNCHANGED exc
               ELSE /\ exc' = m
                    /\ log' = log \o called \o <<[op |-> "install raised"]>>
                    /\ pc' = "finally"
                    /\ UNCHANGED manager
    /\ UNCHANGED <<entry, request, config, software_names, response>>
    /\ UNCHANGED <<selVars, cmdVars, parVars>>

\* [SOFTWARE_CATALOG[name] for name in software_names]
Packages(names) ==
    IF \E i \in 1..Len(names) : names[i] \notin DOMAIN SOFTWARE_CATALOG
    THEN Raise("KeyError", "KeyError", <<>>)
    ELSE Ok([i \in 1..Len(names) |-> SOFTWARE_CATALOG[names[i]]])

\* an install() that runs the install command again when it failed
InstallRun_Retry ==
    /\ pc = "run"
    /\ LET packages == Packages(software_names)
           command == IF packages.ok
                      THEN build_install_command(manager.s, packages.val, config.password)
                      ELSE packages
       IN IF ~command.ok
          THEN /\ exc' = command
               /\ log' = Append(log, [op |-> "install raised"])
               /\ pc' = "finally"
          ELSE \E outcome \in InstallOutcomes :
               LET r == run(command.val, outcome)
                   called == [op |-> "exec_command", command |-> command.val,
                              outcome |-> outcome]
               IN IF r.ok
                  THEN /\ log' = log \o <<called, [op |-> "install returned"]>>
                       /\ pc' = "finally"
                       /\ UNCHANGED exc
                  ELSE IF exc = NoExc
                  THEN /\ exc' = r
                       /\ log' = Append(log, called)
                       /\ pc' = "run"
                  ELSE /\ exc' = r
                       /\ log' = log \o <<called, [op |-> "install raised"]>>
                       /\ pc' = "finally"
    /\ UNCHANGED <<entry, request, config, software_names, manager, response>>
    /\ UNCHANGED <<selVars, cmdVars, parVars>>

\* the rest of installer.install: map the names, build the command, run it
InstallRun ==
    /\ pc = "run"
    /\ LET packages == Packages(software_names)
           command == IF packages.ok
                      THEN build_install_command(manager.s, packages.val, config.password)
                      ELSE packages
       IN IF ~command.ok
          THEN /\ exc' = command
               /\ log' = Append(log, [op |-> "install raised"])
          ELSE \E outcome \in InstallOutcomes :
               LET r == run(command.val, outcome)
                   called == [op |-> "exec_command", command |-> command.val,
                              outcome |-> outcome]
               IN IF r.ok
                  THEN /\ log' = log \o <<called, [op |-> "install returned"]>>
                       /\ UNCHANGED exc
                  ELSE /\ exc' = r
                       /\ log' = log \o <<called, [op |-> "install raised"]>>
    /\ pc' = "finally"
    /\ UNCHANGED <<entry, request, config, software_names, manager, response>>
    /\ UNCHANGED <<selVars, cmdVars, parVars>>

\* close() after the try block instead of in a finally clause
InstallFinally_CloseOnSuccessOnly ==
    /\ pc = "finally"
    /\ log' = IF exc = NoExc THEN Append(log, [op |-> "close"]) ELSE log
    /\ pc' = "exit"
    /\ UNCHANGED <<entry, request, config, software_names, manager, exc, response>>
    /\ UNCHANGED <<selVars, cmdVars, parVars>>

\* the finally clause around installer.install: installer.close(), then the
\* exception of install, if any, goes on
InstallFinally ==
    /\ pc = "finally"
    /\ log' = Append(log, [op |-> "close"])
    /\ pc' = "exit"
    /\ UNCHANGED <<entry, request, config, software_names, manager, exc, response>>
    /\ UNCHANGED <<selVars, cmdVars, parVars>>

\* the except clauses of the two entry points
Handled(entry_point) ==
    IF entry_point = "http" THEN {RequestValidationError, RemoteInstallerError}
    ELSE {RemoteInstallerError, ValueError, RequestValidationError}

\* an entry point that reports success although the install command failed
Outcome_CommandFailureSwallowed(entry_point, e, ssh_config, names) ==
    IF e = NoExc \/ e.kind = "CommandFailed"
    THEN IF entry_point = "http"
         THEN Returned([body |-> [status |-> "success", host |-> ssh_config.host,
                                  installed |-> names],
                        status |-> 200])
         ELSE Returned([exit |-> 0, printed |-> names])
    ELSE IF e.cls \in Handled(entry_point)
    THEN IF entry_point = "http"
         THEN Returned([body |-> [status |-> "error", message |-> e], status |-> 400])
         ELSE Returned([exit |-> 1, printed |-> e])
    ELSE Escaped(e)

\* what the entry point gives back: its return value, or the exception that
\* leaves it
Outcome(entry_point, e, ssh_config, names) ==
    IF e = NoExc
    THEN IF entry_point = "http"
         THEN Returned([body |-> [status |-> "success", host |-> ssh_config.host,
                                  installed |-> names],
                        status |-> 200])
         ELSE Returned([exit |-> 0, printed |-> names])
    ELSE IF e.cls \in Handled(entry_point)
    THEN IF entry_point = "http"
         THEN Returned([body |-> [status |-> "error", message |-> e], status |-> 400])
         ELSE Returned([exit |-> 1, printed |-> e])
    ELSE Escaped(e)

\* the entry point returns or lets the exception through
Exit ==
    /\ pc = "exit"
    /\ response' = Outcome(entry, exc, config, software_names)
    /\ pc' = "done"
    /\ UNCHANGED <<entry, request, config, software_names, manager, exc, log>>
    /\ UNCHANGED <<selVars, cmdVars, parVars>>

Next ==
    \/ HttpReceive
    \/ CliReceive
    \/ Construct
    \/ Connect
    \/ InstallDetect
    \/ InstallRun
    \/ InstallFinally
    \/ Exit

Spec == Init /\ [][Next]_vars

----------------------------------------------------------------------------
(* The selection resolvers on their own *)

SelEntryPool == {git, curl, bogus, <<>>, <<" ">>, <<" ">> \o git \o <<" ">>}

IndexTokenPool ==
    {<<"1">>, <<"3">>, <<"0">>, <<"x">>, <<>>, <<" ", "2">>, <<"1", "0">>, <<"0", "1">>}

\* no invocation of an entry point
NoInvocation ==
    /\ entry = "none"
    /\ request = PyNone
    /\ pc = "done"
    /\ config = PyNone
    /\ software_names = <<>>
    /\ manager = PyNone
    /\ exc = NoExc
    /\ log = <<>>
    /\ response = NoResponse

InitSel ==
    /\ NoInvocation
    /\ NoSynthesis
    /\ NoParallel
    /\ \/ /\ selKind = "names"
          /\ selEntries \in BoundedSeqs(SelEntryPool, MaxEntries)
          /\ selN = 0
       \/ /\ selKind = "index"
          /\ selEntries \in BoundedSeqs(IndexTokenPool, MaxTokens)
          /\ selN \in 0..MaxOptions
    /\ selRaw = Join(selEntries, <<",">>)
    /\ strOut = PyNone
    /\ listOut = PyNone
    /\ idxOut = PyNone

\* the entries as the comma-delimited --software argument
ResolveString ==
    /\ selKind = "names"
    /\ strOut = PyNone
    /\ \E stdin \in StdinLines : strOut' = resolve_software_list(PyStr(selRaw), stdin)
    /\ UNCHANGED <<selKind, selEntries, selRaw, selN, listOut, idxOut>>
    /\ UNCHANGED <<invVars, cmdVars, parVars>>

\* the entries as the JSON array of the software field
EnsureList ==
    /\ selKind = "names"
    /\ listOut = PyNone
    /\ listOut' = _ensure_software_list(
                      PyList([i \in 1..Len(selEntries) |-> PyStr(selEntries[i])]))
    /\ UNCHANGED <<selKind, selEntries, selRaw, selN, strOut, idxOut>>
    /\ UNCHANGED <<invVars, cmdVars, parVars>>

ParseSelection ==
    /\ selKind = "index"
    /\ idxOut = PyNone
    /\ idxOut' = parse_selection(selRaw, selN)
    /\ UNCHANGED <<selKind, selEntries, selRaw, selN, strOut, listOut>>
    /\ UNCHANGED <<invVars, cmdVars, parVars>>

NextSel ==
    \/ ResolveString
    \/ EnsureList
    \/ ParseSelection

SpecSel == InitSel /\ [][NextSel]_vars

----------------------------------------------------------------------------
(* build_install_command on its own *)

MaxPackages == 2    \* package names given to build_install_command

pacman == <<"p", "a", "c", "m", "a", "n">>

\* package names: a catalog package, and names with a blank, a dollar, a
\* quote of either kind, a semicolon
PackageNamePool ==
    {git, <<"a", " ", "b">>, <<"$", "x">>, <<"i", "'", "s">>, <<"\"">>, <<";", "x">>}

ManagerPool == {apt, dnf, yum, zypper, pacman, <<"W", "\n">> \o apt}

PasswordPool == {PyNone, PyStr(<<>>), PyStr(<<"p">>)}

InitCmd ==
    /\ NoInvocation
    /\ Idle
    /\ NoParallel
    /\ synth \in [package_manager : ManagerPool,
                  packages : BoundedSeqs(PackageNamePool, MaxPackages),
                  password : PasswordPool,
                  install_cmd : {PyNone},
                  command : {PyNone}]

\* RemoteInstaller.build_install_command(package_manager, packages)
BuildInstallCommand ==
    /\ synth.command = PyNone
    /\ synth' = [synth EXCEPT
                    !.install_cmd = install_cmd(synth.package_manager, synth.packages),
                    !.command = build_install_command(synth.package_manager,
                                                      synth.packages, synth.password)]
    /\ UNCHANGED <<invVars, selVars, parVars>>

NextCmd == BuildInstallCommand

SpecCmd == InitCmd /\ [][NextCmd]_vars

----------------------------------------------------------------------------
(* Two invocations of install_from_payload side by side, as two request    *)
(* threads of the HTTP server run them: each has its own locals, the       *)
(* RemoteInstaller objects live on one heap, SOFTWARE_CATALOG is a module  *)
(* global.                                                                 *)

Invocations == {"A", "B"}

ParPayloads ==
    {[t |-> "dict", host |-> PyStr(hostH), username |-> PyStr(userU), port |-> Absent,
      password |-> Absent, key_file |-> PyStr(<<"p">>),
      software |-> PyList(<<PyStr(git), PyStr(git)>>)],
     [t |-> "dict", host |-> PyStr(hostH), username |-> PyStr(userU), port |-> PyInt(22),
      password |-> PyStr(<<"p">>), key_file |-> Absent,
      software |-> PyList(<<PyStr(curl)>>)],
     [t |-> "dict", host |-> PyStr(hostH), username |-> PyStr(userU), port |-> PyInt(0),
      password |-> PyStr(<<"p">>), key_file |-> Absent,
      software |-> PyList(<<PyStr(git)>>)]}

\* what the hosts of the two invocations may answer
ParProbeOutcomes ==
    {Completed(0, ProbeEcho(bins) \o <<"\n">>, <<>>) : bins \in {{"apt-get", "yum"}, {}}}
ParInstallOutcomes == {Completed(0, <<>>, <<>>), Completed(1, <<>>, <<"E", "\n">>)}

\* install_from_payload(payload) as one function of the payload and of
\* what its own host answers to connect, to the probe and to the install
\* command
install_from_payload(payload, connect_ok, probe, installed) ==
    LET v == _config_from_payload(payload) IN
    IF ~v.ok THEN v
    ELSE IF ~connect_ok THEN Raise("SSHException", "ConnectFailed", <<>>)
    ELSE LET m == detect_package_manager(probe) IN
    IF ~m.ok THEN m
    ELSE LET packages == Packages(v.val.software_names)
             command == IF packages.ok
                        THEN build_install_command(m.val, packages.val,
                                                   v.val.config.password)
                        ELSE packages
         IN
    IF ~command.ok THEN command
    ELSE LET r == run(command.val, installed) IN
    IF ~r.ok THEN r
    ELSE Ok([status |-> "success", host |-> v.val.config.host,
             installed |-> v.val.software_names])

\* the locals of an invocation that has not started
Fresh(payload) ==
    [pc |-> "start", payload |-> payload, config |-> PyNone, software_names |-> <<>>,
     installer |-> 0, manager |-> PyNone, exc |-> NoExc, result |-> PyNone,
     connect_ok |-> FALSE, probe |-> ChannelError, installed |-> ChannelError]

InitPar ==
    /\ NoInvocation
    /\ Idle
    /\ NoSynthesis
    /\ par \in [Invocations -> {Fresh(payload) : payload \in ParPayloads}]
    /\ installers = <<>>
    /\ catalog = SOFTWARE_CATALOG

\* the number of calls made so far on all RemoteInstaller objects
RECURSIVE CallsMade(_)
CallsMade(objects) ==
    IF objects = <<>> THEN 0
    ELSE Len(Head(objects).calls) + CallsMade(Tail(objects))

\* invocation p calls op on the RemoteInstaller object o, which ends in state
Called(objects, o, p, op, state) ==
    [objects EXCEPT ![o] = [@ EXCEPT
        !.state = state,
        !.calls = Append(@, [by |-> p, op |-> op, at |-> CallsMade(objects) + 1])]]

\* what exec_command does on object o: the answer of the host if the client
\* is connected, an SSHException if it is not
Exec(objects, o, answer) ==
    IF objects[o].state = "connected" THEN answer ELSE ChannelError

\* config, software_names = _config_from_payload(payload)
ParValidate(p) ==
    /\ par[p].pc = "start"
    /\ LET v == _config_from_payload(par[p].payload) IN
       par' = [par EXCEPT ![p] =
                 IF v.ok
                 THEN [@ EXCEPT !.config = v.val.config,
                                !.software_names = v.val.software_names,
                                !.pc = "construct"]
                 ELSE [@ EXCEPT !.exc = v, !.result = v, !.pc = "done"]]
    /\ UNCHANGED <<installers, catalog>>
    /\ UNCHANGED <<invVars, selVars, cmdVars>>

\* one RemoteInstaller kept in a module global and handed to every invocation
ParConstruct_Shared(p) ==
    /\ par[p].pc = "construct"
    /\ installers' = IF installers = <<>>
                     THEN <<[owner |-> p, state |-> "new", calls |-> <<>>]>>
                     ELSE installers
    /\ par' = [par EXCEPT ![p] = [@ EXCEPT !.installer = 1, !.pc = "connect"]]
    /\ UNCHANGED catalog
    /\ UNCHANGED <<invVars, selVars, cmdVars>>

\* installer = RemoteInstaller(config): a new object with a client of its own
ParConstruct(p) ==
    /\ par[p].pc = "construct"
    /\ installers' = Append(installers, [owner |-> p, state |-> "new", calls |-> <<>>])
    /\ par' = [par EXCEPT ![p] = [@ EXCEPT !.installer = Len(installers) + 1,
                                          !.pc = "connect"]]
    /\ UNCHANGED catalog
    /\ UNCHANGED <<invVars, selVars, cmdVars>>

\* installer.connect()
ParConnect(p) ==
    /\ par[p].pc = "connect"
    /\ \E ok \in BOOLEAN :
        /\ installers' = Called(installers, par[p].installer, p, "connect",
                                IF ok THEN "connected"
                                ELSE installers[par[p].installer].state)
        /\ par' = [par EXCEPT ![p] =
                     IF ok
                     THEN [@ EXCEPT !.connect_ok = TRUE, !.pc = "install"]
                     ELSE LET e == Raise("SSHException", "ConnectFailed", <<>>) IN
                          [@ EXCEPT !.exc = e, !.result = e, !.pc = "done"]]
    /\ UNCHANGED catalog
    /\ UNCHANGED <<invVars, selVars, cmdVars>>

\* installer.install(software_names) up to the return of detect_package_manager
ParDetect(p) ==
    /\ par[p].pc = "install"
    /\ \E answer \in ParProbeOutcomes :
        LET m == detect_package_manager(Exec(installers, par[p].installer, answer)) IN
        /\ installers' = Called(installers, par[p].installer, p, "exec_command",
                                installers[par[p].installer].state)
        /\ par' = [par EXCEPT ![p] =
                     IF m.ok
                     THEN [@ EXCEPT !.probe = answer, !.manager = PyStr(m.val),
                                    !.pc = "run"]
                     ELSE [@ EXCEPT !.probe = answer, !.exc = m, !.pc = "finally"]]
    /\ UNCHANGED catalog
    /\ UNCHANGED <<invVars, selVars, cmdVars>>

\* the rest of installer.install
ParRun(p) ==
    /\ par[p].pc = "run"
    /\ LET packages == Packages(par[p].software_names)
           command == IF packages.ok
                      THEN build_install_command(par[p].manager.s, packages.val,
                                                 par[p].config.password)
                      ELSE packages
       IN IF ~command.ok
          THEN /\ par' = [par EXCEPT ![p] = [@ EXCEPT !.exc = command, !.pc = "finally"]]
               /\ UNCHANGED installers
          ELSE \E answer \in ParInstallOutcomes :
               LET r == run(command.val, Exec(installers, par[p].installer, answer)) IN
               /\ installers' = Called(installers, par[p].installer, p, "exec_command",
                                       installers[par[p].installer].state)
               /\ par' = [par EXCEPT ![p] =
                            IF r.ok
                            THEN [@ EXCEPT !.installed = answer, !.pc = "finally"]
                            ELSE [@ EXCEPT !.installed = answer, !.exc = r,
                                           !.pc = "finally"]]
    /\ UNCHANGED catalog
    /\ UNCHANGED <<invVars, selVars, cmdVars>>

\* finally: installer.close(); then the return, or the exception goes on
ParClose(p) ==
    /\ par[p].pc = "finally"
    /\ installers' = Called(installers, par[p].installer, p, "close", "closed")
    /\ par' = [par EXCEPT ![p] =
                 [@ EXCEPT !.pc = "done",
                           !.result =
                               IF par[p].exc = NoExc
                               THEN Ok([status |-> "success",
                                        host |-> par[p].config.host,
                                        installed |-> par[p].software_names])
                               ELSE par[p].exc]]
    /\ UNCHANGED catalog
    /\ UNCHANGED <<invVars, selVars, cmdVars>>

NextPar ==
    \E p \in Invocations :
        \/ ParValidate(p)
        \/ ParConstruct(p)
        \/ ParConnect(p)
        \/ ParDetect(p)
        \/ ParRun(p)
        \/ ParClose(p)

SpecPar == InitPar /\ [][NextPar]_vars

----------------------------------------------------------------------------
(* Properties of an invocation (Spec) *)

LogIdx(op) == {i \in 1..Len(log) : log[i].op = op}

\* connect() has returned successfully
Connected == \E i \in LogIdx("connect") : log[i].ok

NoDuplicates(s) == \A i, j \in 1..Len(s) : s[i] = s[j] => i = j

\* C1: in every run in which connect() returned successfully, close() is
\* called exactly once, after install() has returned or raised and never
\* before, whatever install() did (success, detection failure, non-zero
\* exit, any other exception).
C1_CloseOnceAfterInstall ==
    /\ Cardinality(LogIdx("close")) <= 1
    /\ \A c \in LogIdx("close") :
          /\ \E i \in LogIdx("connect") : i < c /\ log[i].ok
          /\ \E i \in LogIdx("install returned") \cup LogIdx("install raised") : i < c
          /\ c = Len(log)
    /\ (Connected /\ pc \in {"exit", "done"}) => Cardinality(LogIdx("close")) = 1
    /\ (Connected /\ pc \notin {"exit", "done"}) => LogIdx("close") = {}

\* a run whose install() died of an exception that is not the installer's
\* own, and whose connection was closed nevertheless
C1_Witness ==
    /\ pc = "done"
    /\ Connected
    /\ exc # NoExc
    /\ exc.cls = "SSHException"
    /\ Cardinality(LogIdx("close")) = 1
    /\ response.t = "raised"

ValidationKinds ==
    {"EmptySelection", "UnknownSoftware", "InvalidItem", "InvalidToken", "OutOfRange",
     "InvalidCredentials", "ArgparseError"}

\* C2: validation comes before the network: whenever connect() is called
\* (or about to be) the software list is non-empty, duplicate-free and made
\* of catalog names, and an invocation that failed validation has not
\* called connect(); install() never finds the list empty.
C2_ValidatedBeforeConnect ==
    /\ (pc = "connect" \/ LogIdx("connect") # {}) =>
          /\ software_names # <<>>
          /\ NoDuplicates(software_names)
          /\ \A i \in 1..Len(software_names) : software_names[i] \in DOMAIN SOFTWARE_CATALOG
    /\ (exc # NoExc /\ exc.kind \in ValidationKinds) => log = <<>>
    /\ (entry = "http" /\ pc = "done" /\ request = PyNone) => log = <<>>
    /\ exc # NoExc => exc.kind # "NoSoftwareSelected"

\* connect() called with a list that validation has deduplicated
C2_Witness ==
    /\ entry = "http"
    /\ LogIdx("connect") # {}
    /\ request.software.l = <<PyStr(git), PyStr(git)>>
    /\ software_names = <<git>>

\* C3: at every connect(), exactly one of password and key_file of the
\* SSHConfig is present and non-empty.
C3_ExactlyOneCredential ==
    LogIdx("connect") # {} => (Truthy(config.password) # Truthy(config.key_file))

Managers == {apt, dnf, yum, zypper}

\* C4: the manager that leaves detection is one of apt, dnf, yum, zypper,
\* any other probe output fails detection with the unsupported-distribution
\* error, and build_install_command never fails in install().
C4_ClosedEnumeration ==
    /\ manager # PyNone => manager.s \in Managers
    /\ \A i \in LogIdx("exec_command") :
          (/\ log[i].command = ProbeCommand
           /\ log[i].outcome # ChannelError
           /\ log[i].outcome.exit_code = 0
           /\ Strip(log[i].outcome.stdout) \notin Managers
           /\ pc \in {"finally", "exit", "done"})
          => (exc # NoExc /\ exc.kind = "UnsupportedDistribution")
    /\ exc # NoExc => exc.kind # "UnsupportedPackageManager"

\* the install commands that were executed, as positions of the log
InstallExecs == {i \in LogIdx("exec_command") : log[i].command # ProbeCommand}

\* C5: when the install command exits non-zero the invocation fails with the
\* command-execution failure carrying that exit code and the captured
\* stdout and stderr (surrounding whitespace stripped); the command was
\* executed once, no success is returned and the connection is closed once.
C5_NonZeroExitFails ==
    \A i \in InstallExecs :
        (log[i].outcome # ChannelError /\ log[i].outcome.exit_code # 0) =>
            /\ exc # NoExc
            /\ exc.cls = RemoteInstallerError
            /\ exc.kind = "CommandFailed"
            /\ exc.detail.exit_code = log[i].outcome.exit_code
            /\ exc.detail.stdout = Strip(log[i].outcome.stdout)
            /\ exc.detail.stderr = Strip(log[i].outcome.stderr)
            /\ exc.detail.command = log[i].command
            /\ InstallExecs = {i}
            /\ pc \in {"exit", "done"} => Cardinality(LogIdx("close")) = 1
            /\ pc = "done" =>
                  /\ response.t = "returned"
                  /\ entry = "http" =>
                        /\ response.value.status # 200
                        /\ response.value.body.status = "error"
                        /\ response.value.body.message = exc
                  /\ entry = "cli" =>
                        /\ response.value.exit # 0
                        /\ response.value.printed = exc

\* the install command exited 100 with output on both streams
C5_Witness ==
    /\ pc = "done"
    /\ exc # NoExc
    /\ exc.kind = "CommandFailed"
    /\ exc.detail.command # ProbeCommand
    /\ exc.detail.exit_code = 100
    /\ exc.detail.stdout = <<"o">>
    /\ exc.detail.stderr = <<"E">>
    /\ Cardinality(LogIdx("close")) = 1

\* the error kinds of the engine: validation errors, a failed connect(),
\* an unsupported distribution, a failed command
EngineErrorKinds ==
    ValidationKinds \cup {"ConnectFailed", "UnsupportedDistribution", "CommandFailed"}

\* C6: every failure of an invocation through the HTTP entry point, of
\* whichever error kind, comes back as an (error body with message, status)
\* pair; none leaves install_software_http as an exception and none is
\* reported as success.
C6_EveryFailureStructured ==
    (entry = "http" /\ pc = "done" /\ exc # NoExc /\ exc.kind \in EngineErrorKinds) =>
        /\ response.t = "returned"
        /\ response.value.body.status = "error"
        /\ response.value.body.message = exc
        /\ response.value.status # 200

----------------------------------------------------------------------------
(* Properties of the selection resolvers (SpecSel) *)

\* the entries of the input, trimmed, without the empty ones
TrimmedEntries == SelectSeq([i \in 1..Len(selEntries) |-> Strip(selEntries[i])],
                            LAMBDA e : e # <<>>)

FirstIndex(s, x) == CHOOSE i \in 1..Len(s) : s[i] = x /\ \A j \in 1..(i - 1) : s[j] # x

\* res lists the distinct elements of req in the order of their first
\* occurrence in req
FirstOccurrenceOrder(res, req) ==
    /\ NoDuplicates(res)
    /\ {res[i] : i \in 1..Len(res)} = {req[j] : j \in 1..Len(req)}
    /\ \A i, j \in 1..Len(res) :
          i < j => FirstIndex(req, res[i]) < FirstIndex(req, res[j])

\* C7: the two name-resolution paths agree on every sequence of entries:
\* both return the same ordered list or both fail.  (The empty text is left
\* out: resolve_software_list does not resolve it by name but shows the menu.)
C7_PathsAgree ==
    (selKind = "names" /\ selRaw # <<>> /\ strOut # PyNone /\ listOut # PyNone) =>
        \/ strOut.ok /\ listOut.ok /\ strOut.val = listOut.val
        \/ ~strOut.ok /\ ~listOut.ok

\* C8: when name resolution succeeds, by either path, the returned list has
\* no duplicates and lists the distinct requested names in the order of
\* their first occurrence in the input.  (An empty --software text is not
\* resolved by name: the interactive chooser answers, with distinct catalog
\* names.)
C8_DistinctFirstOccurrence ==
    /\ (selKind = "names" /\ strOut # PyNone /\ strOut.ok) =>
          IF selRaw # <<>>
          THEN FirstOccurrenceOrder(strOut.val, TrimmedEntries)
          ELSE /\ NoDuplicates(strOut.val)
               /\ \A i \in 1..Len(strOut.val) : strOut.val[i] \in DOMAIN SOFTWARE_CATALOG
    /\ (selKind = "names" /\ listOut # PyNone /\ listOut.ok) =>
          FirstOccurrenceOrder(listOut.val, TrimmedEntries)

\* "git, git ,curl,git"-like input resolved by both paths to [git, curl]
C8_Witness ==
    /\ selEntries = <<git, <<" ">> \o git \o <<" ">>, curl>>
    /\ strOut = Ok(<<git, curl>>)
    /\ listOut = Ok(<<git, curl>>)

\* the trimmed, non-empty entries that are not catalog names
Offending == SelectSeq(TrimmedEntries, LAMBDA e : e \notin DOMAIN SOFTWARE_CATALOG)

FailsUnknown(out) == ~out.ok /\ out.kind = "UnknownSoftware"

\* C9: name resolution, by either path, fails with the unknown-software
\* error if and only if some trimmed, non-empty entry is not in the catalog,
\* and the error then names the offending entries.
C9_UnknownIffAbsent ==
    /\ (selKind = "names" /\ strOut # PyNone) =>
          /\ FailsUnknown(strOut) <=> Offending # <<>>
          /\ FailsUnknown(strOut) =>
                {strOut.detail[i] : i \in 1..Len(strOut.detail)}
                    = {Offending[i] : i \in 1..Len(Offending)}
    /\ (selKind = "names" /\ listOut # PyNone) =>
          /\ FailsUnknown(listOut) <=> Offending # <<>>
          /\ FailsUnknown(listOut) =>
                {listOut.detail[i] : i \in 1..Len(listOut.detail)}
                    = {Offending[i] : i \in 1..Len(Offending)}

\* the tokens of the input, trimmed, without the empty ones
Tokens == TrimmedEntries

Malformed(token) == ~isdigit(token)
OutOfRange(token, n) == isdigit(token) /\ (int(token) < 1 \/ int(token) > n)

\* the indices of the tokens, as a sequence
TokenIndices == [i \in 1..Len(Tokens) |-> int(Tokens[i])]

\* C10 as stated: parse_selection ignores empty tokens, fails with the
\* invalid-token error if some token is not a non-negative integer literal,
\* fails with the out-of-range error if some index is outside [1, n], and
\* otherwise returns the distinct indices in first-seen order, all in [1, n].
C10_AsStated ==
    (selKind = "index" /\ idxOut # PyNone) =>
        /\ (\E i \in 1..Len(Tokens) : Malformed(Tokens[i])) =>
              (~idxOut.ok /\ idxOut.kind = "InvalidToken")
        /\ (\E i \in 1..Len(Tokens) : OutOfRange(Tokens[i], selN)) =>
              (~idxOut.ok /\ idxOut.kind = "OutOfRange")
        /\ (\A i \in 1..Len(Tokens) : ~Malformed(Tokens[i]) /\ ~OutOfRange(Tokens[i], selN)) =>
              /\ idxOut.ok
              /\ FirstOccurrenceOrder(idxOut.val, TokenIndices)
              /\ \A i \in 1..Len(idxOut.val) : idxOut.val[i] \in 1..selN

\* the positions of the tokens that are malformed or out of range
Offenders == {i \in 1..Len(Tokens) : Malformed(Tokens[i]) \/ OutOfRange(Tokens[i], selN)}

\* C10, amended: parse_selection ignores empty tokens and fails on the
\* first offending token in input order, with the invalid-token error if
\* that token is not a digit string and with the out-of-range error if its
\* value is outside [1, n]; with no offending token it returns the distinct
\* indices in first-seen order, all in [1, n].
C10_FirstOffenderDecides ==
    (selKind = "index" /\ idxOut # PyNone) =>
        IF Offenders = {}
        THEN /\ idxOut.ok
             /\ FirstOccurrenceOrder(idxOut.val, TokenIndices)
             /\ \A i \in 1..Len(idxOut.val) : idxOut.val[i] \in 1..selN
        ELSE LET first == CHOOSE i \in Offenders : \A j \in Offenders : i <= j IN
             /\ ~idxOut.ok
             /\ idxOut.cls = ValueError
             /\ IF Malformed(Tokens[first])
                THEN idxOut.kind = "InvalidToken" /\ idxOut.detail = Tokens[first]
                ELSE idxOut.kind = "OutOfRange" /\ idxOut.detail = int(Tokens[first])

\* "0,x" with n = 4: the out-of-range index comes first and decides
C10_Witness ==
    /\ selKind = "index"
    /\ selEntries = <<<<"0">>, <<"x">>>>
    /\ selN = 4
    /\ idxOut # PyNone
    /\ ~idxOut.ok
    /\ idxOut.kind = "OutOfRange"

----------------------------------------------------------------------------
(* C11: the credentials of a payload *)

NonEmptyStr(v) == v.t = "str" /\ v.s # <<>>

\* the payloads whose host, username and port pass, so that the credentials
\* are looked at
CredentialsLookedAt ==
    /\ entry = "http"
    /\ pc # "start"
    /\ request.t = "dict"
    /\ Get(request.host).t = "str" /\ Strip(Get(request.host).s) # <<>>
    /\ Get(request.username).t = "str" /\ Strip(Get(request.username).s) # <<>>
    /\ (request.port = Absent \/ (request.port.t = "int" /\ request.port.n > 0))

CredentialsRejected ==
    /\ exc # NoExc
    /\ exc.cls = RequestValidationError
    /\ exc.kind = "InvalidCredentials"
    /\ exc.detail \in {"exactly one", "password", "key_file"}
    /\ log = <<>>

\* C11: the credentials pass exactly when one of password and key_file is a
\* non-empty string and the other is not supplied non-empty (absent, null
\* or empty), and fail with the invalid-credentials error otherwise.
C11_ExactlyOneNonEmptyAccepted ==
    CredentialsLookedAt =>
        LET password == Get(request.password)
            key_file == Get(request.key_file)
        IN CredentialsRejected <=>
              ~ \/ NonEmptyStr(password) /\ ~Truthy(key_file)
                \/ NonEmptyStr(key_file) /\ ~Truthy(password)

----------------------------------------------------------------------------
(* C12: the priority of detection *)

Priority == <<"apt-get", "dnf", "yum", "zypper">>
ReportedAs == <<apt, dnf, yum, zypper>>

\* the name of the first binary, in priority order, that the host has
HighestPriority(binaries) ==
    IF \A i \in 1..Len(Priority) : Priority[i] \notin binaries THEN unknown
    ELSE LET first == CHOOSE i \in 1..Len(Priority) :
                          /\ Priority[i] \in binaries
                          /\ \A j \in 1..(i - 1) : Priority[j] \notin binaries
         IN ReportedAs[first]

\* the probe commands that were executed, as positions of the log
ProbeExecs == {i \in LogIdx("exec_command") : log[i].command = ProbeCommand}

LastLine(text) ==
    LET lines == Split(Strip(text), "\n") IN
    IF lines = <<>> THEN <<>> ELSE lines[Len(lines)]

\* C12: on every host the probe reports the first of apt-get, dnf, yum,
\* zypper that is present and the unrecognized value only when none is, a
\* quiet login shell hands exactly that to detection, and a session that
\* reached install() has executed the probe command exactly once.
C12_DetectionPriority ==
    /\ Cardinality(ProbeExecs) <= 1
    /\ (Connected /\ pc \in {"run", "finally", "exit", "done"}) =>
          Cardinality(ProbeExecs) = 1
    /\ \A i \in ProbeExecs :
          (log[i].outcome # ChannelError /\ log[i].outcome.exit_code = 0) =>
              LET expected == HighestPriority(log[i].host.binaries) IN
              /\ LastLine(log[i].outcome.stdout) = expected
              /\ (expected = unknown) <=> (log[i].host.binaries = {})
              /\ log[i].host.banner = <<>> =>
                    IF expected = unknown
                    THEN /\ manager = PyNone
                         /\ exc # NoExc /\ exc.kind = "UnsupportedDistribution"
                    ELSE manager = PyStr(expected)

\* a host with dnf, yum and zypper but no apt-get was probed: dnf
C12_Witness ==
    /\ \E i \in ProbeExecs :
          /\ log[i].host.binaries = {"dnf", "yum", "zypper"}
          /\ log[i].host.banner = <<>>
          /\ log[i].outcome # ChannelError
          /\ log[i].outcome.exit_code = 0
    /\ manager = PyStr(dnf)
    /\ pc = "done"

----------------------------------------------------------------------------
(* C14: success *)

\* the entry point reports success: status 200 with a success body, or
\* exit status 0
ReturnedSuccess ==
    /\ response.t = "returned"
    /\ IF entry = "http"
       THEN response.value.status = 200 /\ response.value.body.status = "success"
       ELSE response.value.exit = 0

\* the display names asked for by the JSON body, trimmed
RequestedNames == [i \in 1..Len(request.software.l) |-> Strip(request.software.l[i].s)]

\* C14: a finished invocation reports success exactly when connect()
\* succeeded, the probe returned one of the four managers and the install
\* command exited zero; the success result carries the host of the request
\* and, as installed, the display names of the request without duplicates
\* in first-occurrence order.
C14_SuccessExactlyWhen ==
    pc = "done" =>
        /\ ReturnedSuccess <=>
              /\ Connected
              /\ manager # PyNone
              /\ manager.s \in Managers
              /\ \E i \in InstallExecs :
                    log[i].outcome # ChannelError /\ log[i].outcome.exit_code = 0
        /\ (ReturnedSuccess /\ entry = "http") =>
              /\ response.value.body.host = PyStr(Strip(request.host.s))
              /\ response.value.body.installed = software_names
              /\ FirstOccurrenceOrder(response.value.body.installed, RequestedNames)
        /\ (ReturnedSuccess /\ entry = "cli") => response.value.printed = software_names

\* ["git", "curl"] on an apt host, install exits zero
C14_Witness ==
    /\ pc = "done"
    /\ entry = "http"
    /\ request.t = "dict"
    /\ request.software # Absent
    /\ request.software.l = <<PyStr(git), PyStr(curl)>>
    /\ manager = PyStr(apt)
    /\ ReturnedSuccess
    /\ response.value.body.installed = <<git, curl>>
    /\ response.value.body.host = PyStr(hostH)

----------------------------------------------------------------------------
(* C15: the two classes of failure at the HTTP boundary *)

ClientErrorStatus == 400..499
ServerErrorStatus == 500..599

\* C15: install_software_http answers a validation failure (a
\* RequestValidationError, a missing or invalid JSON body) with a client
\* error status, and an engine failure (a RemoteInstallerError raised after
\* validation passed) with a server error status.
C15_FailureClassesDistinguished ==
    (entry = "http" /\ pc = "done" /\ response.t = "returned") =>
        /\ (request = PyNone \/ (exc # NoExc /\ exc.cls = RequestValidationError)) =>
              response.value.status \in ClientErrorStatus
        /\ (exc # NoExc /\ exc.cls = RemoteInstallerError) =>
              response.value.status \in ServerErrorStatus

----------------------------------------------------------------------------
(* C16: commands only on a connected session *)

\* C16: every remote command is executed after a connect() that succeeded
\* and before close(); after a failed connect() no command is executed;
\* the install command is executed only after the probe command has
\* completed and detection has returned one of the managers.
C16_CommandsOnlyWhileConnected ==
    /\ \A i \in LogIdx("exec_command") :
          /\ \E j \in LogIdx("connect") : j < i /\ log[j].ok
          /\ \A c \in LogIdx("close") : i < c
    /\ (\E j \in LogIdx("connect") : ~log[j].ok) => LogIdx("exec_command") = {}
    /\ \A i \in InstallExecs :
          /\ \E p \in ProbeExecs :
                /\ p < i
                /\ log[p].outcome # ChannelError
                /\ log[p].outcome.exit_code = 0
                /\ manager = PyStr(Strip(log[p].outcome.stdout))
          /\ manager.s \in Managers

\* probe and install command both ran between connect() and close()
C16_Witness ==
    /\ pc = "done"
    /\ \E j \in LogIdx("connect"), p \in ProbeExecs, i \in InstallExecs, c \in LogIdx("close") :
          log[j].ok /\ j < p /\ p < i /\ i < c
    /\ manager = PyStr(zypper)

----------------------------------------------------------------------------
(* C17: no retries *)

Rank(p) ==
    CASE p = "start" -> 0
      [] p = "construct" -> 1
      [] p = "connect" -> 2
      [] p = "install" -> 3
      [] p = "run" -> 4
      [] p = "finally" -> 5
      [] p = "exit" -> 6
      [] p = "done" -> 7

\* the response hands the exception to the caller: as the error of the
\* response or as the exception itself
ReportsFailure(r, e) ==
    \/ r.t = "raised" /\ r.exc = e
    \/ /\ r.t = "returned"
       /\ IF entry = "http"
          THEN r.value.status # 200 /\ r.value.body.status = "error"
               /\ r.value.body.message = e
          ELSE r.value.exit # 0 /\ r.value.printed = e

\* C17: every step takes the invocation strictly forward, so it ends after
\* at most seven steps; it calls connect(), the probe command, the install
\* command and close() at most once each; once an exception is in flight
\* it stays the same one, no further connect() or remote command is
\* issued, and it is what the invocation ends with.
C17_NoRetries ==
    [][/\ Rank(pc') > Rank(pc)
       /\ Cardinality(LogIdx("connect")') <= 1
       /\ Cardinality(ProbeExecs') <= 1
       /\ Cardinality(InstallExecs') <= 1
       /\ Cardinality(LogIdx("close")') <= 1
       /\ exc # NoExc =>
             /\ exc' = exc
             /\ LogIdx("connect")' = LogIdx("connect")
             /\ LogIdx("exec_command")' = LogIdx("exec_command")
       /\ (pc' = "done" /\ exc' # NoExc) => ReportsFailure(response', exc')
      ]_vars

\* the install command failed: one connect, one probe, one install command,
\* one close, and the failure is the outcome
C17_Witness ==
    /\ pc = "done"
    /\ exc # NoExc
    /\ exc.kind = "CommandFailed"
    /\ exc.detail.command # ProbeCommand
    /\ Cardinality(LogIdx("connect")) = 1
    /\ Cardinality(ProbeExecs) = 1
    /\ Cardinality(InstallExecs) = 1
    /\ Cardinality(LogIdx("close")) = 1
    /\ ReportsFailure(response, exc)
    /\ entry = "cli"

----------------------------------------------------------------------------
(* C19: the port of a payload *)

ValidPorts == 1..65535

\* the payloads whose host and username pass, so that the port is looked at
PortLookedAt ==
    /\ entry = "http"
    /\ pc # "start"
    /\ request.t = "dict"
    /\ Get(request.host).t = "str" /\ Strip(Get(request.host).s) # <<>>
    /\ Get(request.username).t = "str" /\ Strip(Get(request.username).s) # <<>>

\* C19: no connect() is called with a port outside 1..65535: a payload
\* whose port is present and not an integer in [1, 65535] fails validation
\* and yields no SSHConfig, and an absent port becomes 22.
C19_PortInRange ==
    /\ \A j \in LogIdx("connect") :
          log[j].kwargs.port.t = "int" /\ log[j].kwargs.port.n \in ValidPorts
    /\ PortLookedAt =>
          /\ (request.port # Absent
                /\ ~(request.port.t = "int" /\ request.port.n \in ValidPorts))
             => /\ exc # NoExc
                /\ exc.cls = RequestValidationError
                /\ config = PyNone
                /\ log = <<>>
          /\ (request.port = Absent /\ config # PyNone) => config.port = PyInt(22)

----------------------------------------------------------------------------
(* A POSIX shell reading a command line: quoting, word splitting, operators *)

Blanks == {" ", "\t"}
OperatorChars == {"|", "&", ";", "<", ">", "(", ")", "\n"}
ExpansionChars == {"$"}
PatternChars == {"*", "?", "[", "~", "#"}

\* what one character of the line turns into: a character of a word, the
\* mark of a quoted (possibly empty) part of a word, a blank between words,
\* a character of an operator, or a character the shell acts upon
Item(kind, c) == [k |-> kind, c |-> c]

\* the shell reads character c in quoting state st: "U" unquoted, "S" in
\* single quotes, "D" in double quotes, "UB" / "DB" after a backslash
ShellStep(st, c) ==
    CASE st = "U" ->
            IF c = "'" THEN [st |-> "S", out |-> <<Item("quote", c)>>]
            ELSE IF c = "\"" THEN [st |-> "D", out |-> <<Item("quote", c)>>]
            ELSE IF c = "\\" THEN [st |-> "UB", out |-> <<Item("quote", c)>>]
            ELSE IF c \in Blanks THEN [st |-> "U", out |-> <<Item("blank", c)>>]
            ELSE IF c \in OperatorChars THEN [st |-> "U", out |-> <<Item("op", c)>>]
            ELSE IF c \in ExpansionChars \cup PatternChars
            THEN [st |-> "U", out |-> <<Item("active", c)>>]
            ELSE [st |-> "U", out |-> <<Item("char", c)>>]
      [] st = "UB" -> [st |-> "U", out |-> <<Item("char", c)>>]
      [] st = "S" ->
            IF c = "'" THEN [st |-> "U", out |-> <<>>]
            ELSE [st |-> "S", out |-> <<Item("char", c)>>]
      [] st = "D" ->
            IF c = "\"" THEN [st |-> "U", out |-> <<>>]
            ELSE IF c = "\\" THEN [st |-> "DB", out |-> <<>>]
            ELSE IF c \in ExpansionChars THEN [st |-> "D", out |-> <<Item("active", c)>>]
            ELSE [st |-> "D", out |-> <<Item("char", c)>>]
      [] st = "DB" ->
            IF c \in ExpansionChars \cup {"\"", "\\"}
            THEN [st |-> "D", out |-> <<Item("char", c)>>]
            ELSE [st |-> "D", out |-> <<Item("char", "\\"), Item("char", c)>>]

ShellStates == {"U", "S", "D", "UB", "DB"}

\* the shell reads the line s from quoting state st (by halves; the state
\* is looked at first, so that it is computed before the line is split)
RECURSIVE ShellScan(_, _)
ShellScan(s, st) ==
    IF st \notin ShellStates \/ s = <<>> THEN [st |-> st, out |-> <<>>]
    ELSE IF Len(s) = 1 THEN ShellStep(st, s[1])
    ELSE LET h == Len(s) \div 2
             l == ShellScan(SubSeq(s, 1, h), st)
         IN LET r == ShellScan(SubSeq(s, h + 1, Len(s)), l.st)
            IN [st |-> r.st, out |-> l.out \o r.out]

Sorted(S) == [i \in 1..Cardinality(S) |->
                 CHOOSE x \in S : Cardinality({y \in S : y < x}) = i - 1]

Class(item) == IF item.k = "blank" THEN "B" ELSE IF item.k = "op" THEN "O" ELSE "W"

\* the word or operator that starts at item a
Token(items, a) ==
    LET b == CHOOSE e \in a..Len(items) :
                 /\ \A j \in a..e : Class(items[j]) = Class(items[a])
                 /\ (e = Len(items) \/ Class(items[e + 1]) # Class(items[a]))
        chars == SelectSeq(SubSeq(items, a, b), LAMBDA x : x.k # "quote")
    IN [op |-> Class(items[a]) = "O", text |-> [i \in 1..Len(chars) |-> chars[i].c]]

\* the words and operators of a line, quotes removed
ShellTokens(line) ==
    LET items == ShellScan(line, "U").out
        starts == Sorted({i \in 1..Len(items) :
                            /\ Class(items[i]) # "B"
                            /\ (i = 1 \/ Class(items[i - 1]) # Class(items[i]))})
    IN [i \in 1..Len(starts) |-> Token(items, starts[i])]

\* the shell expands, matches or misreads something in the line: an active
\* dollar or pattern character, or a quote that is never closed
ShellActs(line) ==
    LET scan == ShellScan(line, "U") IN
    \/ scan.st # "U"
    \/ \E i \in 1..Len(scan.out) : scan.out[i].k = "active"

Operator(text) == [op |-> TRUE, text |-> text, argv |-> <<>>]
Command(argv) == [op |-> FALSE, text |-> <<>>, argv |-> argv]

\* the simple commands of a line and the operators between them
ShellCommands(line) ==
    LET toks == ShellTokens(line)
        starts == Sorted({i \in 1..Len(toks) :
                            toks[i].op \/ i = 1 \/ toks[i - 1].op})
        argvAt(a) ==
            LET b == CHOOSE e \in a..Len(toks) :
                         /\ \A j \in a..e : ~toks[j].op
                         /\ (e = Len(toks) \/ toks[e + 1].op)
            IN [j \in 1..(b - a + 1) |-> toks[a + j - 1].text]
    IN [i \in 1..Len(starts) |->
           IF toks[starts[i]].op THEN Operator(toks[starts[i]].text)
           ELSE Command(argvAt(starts[i]))]

bash == <<"b", "a", "s", "h">>
lc == <<"-", "l", "c">>
sudo == <<"s", "u", "d", "o">>
echo == <<"e", "c", "h", "o">>

\* the script a command hands to a further shell: bash -lc SCRIPT, or
\* sudo -n / -S bash -lc SCRIPT; <<>> marks that there is none
NestedScript(argv) ==
    IF Len(argv) >= 3 /\ argv[1] = bash /\ argv[2] = lc THEN <<argv[3]>>
    ELSE IF /\ Len(argv) >= 5
            /\ argv[1] = sudo
            /\ argv[2] \in {<<"-", "n">>, <<"-", "S">>}
            /\ argv[3] = bash
            /\ argv[4] = lc
    THEN <<argv[5]>>
    ELSE <<>>

RECURSIVE Concat(_)
Concat(seqs) == IF seqs = <<>> THEN <<>> ELSE Head(seqs) \o Concat(Tail(seqs))

\* what is executed in the end, once every shell the line passes through
\* has read its script: the commands with their arguments, and the
\* operators between them
RECURSIVE Executed(_)
Executed(line) ==
    LET els == ShellCommands(line) IN
    Concat([i \in 1..Len(els) |->
               IF ~els[i].op /\ NestedScript(els[i].argv) # <<>>
               THEN Executed(NestedScript(els[i].argv)[1])
               ELSE <<els[i]>>])

\* some shell on the way acts on a character of its script
RECURSIVE Leaks(_)
Leaks(line) ==
    \/ ShellActs(line)
    \/ LET els == ShellCommands(line) IN
       \E i \in 1..Len(els) :
           /\ ~els[i].op
           /\ NestedScript(els[i].argv) # <<>>
           /\ Leaks(NestedScript(els[i].argv)[1])

----------------------------------------------------------------------------
(* C13, C20: the synthesized command *)

AndThen == <<"&", "&">>

\* the command lines of the four managers, as the words they are made of
UpdateArgv ==
    <<<<"D", "E", "B", "I", "A", "N", "_", "F", "R", "O", "N", "T", "E", "N", "D", "=", "n", "o", "n", "i", "n", "t", "e", "r", "a", "c", "t", "i", "v", "e">>,
      <<"a", "p", "t", "-", "g", "e", "t">>,
      <<"u", "p", "d", "a", "t", "e">>>>
InstallArgv(package_manager) ==
    IF package_manager = apt
    THEN <<<<"D", "E", "B", "I", "A", "N", "_", "F", "R", "O", "N", "T", "E", "N", "D", "=", "n", "o", "n", "i", "n", "t", "e", "r", "a", "c", "t", "i", "v", "e">>,
      <<"a", "p", "t", "-", "g", "e", "t">>,
      <<"i", "n", "s", "t", "a", "l", "l">>,
      <<"-", "y">>>>
    ELSE IF package_manager = zypper
    THEN <<<<"z", "y", "p", "p", "e", "r">>,
      <<"-", "-", "n", "o", "n", "-", "i", "n", "t", "e", "r", "a", "c", "t", "i", "v", "e">>,
      <<"i", "n", "s", "t", "a", "l", "l">>>>
    ELSE <<package_manager, <<"i", "n", "s", "t", "a", "l", "l">>, <<"-", "y">>>>

\* C13: for each of the four managers and every list of package names, with
\* and without a password, once the shells the command passes through have
\* read it no one of them has acted on a character of it, and the command
\* executed last is the install command of the manager with exactly the
\* given package names, each once and as one literal argument, in order.
C13_PackagesLiteralArguments ==
    (synth # PyNone /\ synth.command # PyNone /\ synth.command.ok) =>
        LET executed == Executed(synth.command.val) IN
        /\ ~Leaks(synth.command.val)
        /\ executed # <<>>
        /\ ~executed[Len(executed)].op
        /\ executed[Len(executed)].argv =
              InstallArgv(synth.package_manager) \o synth.packages

\* C20: the install command of build_install_command, read by the shell
\* that runs it: for apt a non-interactive update and then (&&) a
\* non-interactive install -y; for dnf and yum "<manager> install -y"; for
\* zypper "zypper --non-interactive install"; in each case followed by
\* exactly the given packages in the given order; for any other manager the
\* unsupported-package-manager error and no command.
C20_ManagerTemplates ==
    (synth # PyNone /\ synth.command # PyNone) =>
        IF synth.package_manager \in Managers
        THEN /\ synth.install_cmd.ok
             /\ synth.command.ok
             /\ ~ShellActs(synth.install_cmd.val)
             /\ Executed(synth.install_cmd.val) =
                   (IF synth.package_manager = apt
                    THEN <<Command(UpdateArgv), Operator(AndThen)>> ELSE <<>>)
                   \o <<Command(InstallArgv(synth.package_manager) \o synth.packages)>>
        ELSE /\ ~synth.install_cmd.ok
             /\ synth.command = synth.install_cmd
             /\ synth.command.cls = RemoteInstallerError
             /\ synth.command.kind = "UnsupportedPackageManager"
             /\ synth.command.detail = synth.package_manager

\* apt with a catalog package and a name that needs quoting
C20_Witness ==
    /\ synth # PyNone
    /\ synth.package_manager = apt
    /\ synth.packages = <<git, <<"a", " ", "b">>>>
    /\ synth.command # PyNone
    /\ synth.install_cmd.ok
    /\ Executed(synth.install_cmd.val)[3].argv[5] = git
    /\ Executed(synth.install_cmd.val)[3].argv[6] = <<"a", " ", "b">>

----------------------------------------------------------------------------
(* C18: invocations side by side *)

\* the calls that invocation p has made, on whichever object
CallsBy(p) ==
    UNION {{installers[o].calls[k] : k \in {k \in 1..Len(installers[o].calls) :
                                              installers[o].calls[k].by = p}} :
           o \in 1..Len(installers)}

\* C18: of two invocations of install_from_payload that run interleaved,
\* each has a RemoteInstaller of its own, every connect, exec_command and
\* close on an object is made by the invocation that constructed it, each
\* invocation ends with exactly what install_from_payload gives for its own
\* payload and the answers of its own host, and SOFTWARE_CATALOG stays as
\* it was.
C18_InvocationsIndependent ==
    /\ catalog = SOFTWARE_CATALOG
    /\ \A o \in 1..Len(installers) :
          \A k \in 1..Len(installers[o].calls) :
              installers[o].calls[k].by = installers[o].owner
    /\ \A p \in DOMAIN par :
          /\ par[p].installer # 0 =>
                /\ par[p].installer \in 1..Len(installers)
                /\ installers[par[p].installer].owner = p
          /\ \A q \in DOMAIN par :
                (p # q /\ par[p].installer # 0) => par[p].installer # par[q].installer
          /\ par[p].pc = "done" =>
                par[p].result = install_from_payload(par[p].payload, par[p].connect_ok,
                                                     par[p].probe, par[p].installed)

\* B connected while A was connected and A closed while B was still
\* running; A succeeded and B's install command failed
C18_Witness ==
    /\ par # <<>>
    /\ par["A"].pc = "done" /\ par["B"].pc = "done"
    /\ par["A"].result.ok
    /\ par["A"].result.val.installed = <<git>>
    /\ ~par["B"].result.ok
    /\ par["B"].result.kind = "CommandFailed"
    /\ \E a1, a2 \in CallsBy("A"), b1, b2 \in CallsBy("B") :
          /\ a1.op = "connect" /\ b1.op = "connect"
          /\ a2.op = "close" /\ b2.op = "exec_command"
          /\ a1.at < b1.at /\ b1.at < a2.at /\ a2.at < b2.at

====
